---------------------------- MODULE Spec2Model ----------------------------
(***************************************************************************)
(* A model of safe_crypto (src/src/lib.rs): PublicId, SecretId,            *)
(* SharedSecretKey, the PackedNonce envelope and the three error enums.    *)
(*                                                                         *)
(* The crate wires together two external collaborators, rust_sodium and    *)
(* the maidsafe_utilities codec.  They are modelled by their contracts:    *)
(*   - keys and nonces are symbolic names; every draw from the secure      *)
(*     random source yields a name never drawn before (collisions of       *)
(*     random 192/256-bit values are outside the model);                   *)
(*   - authenticated encryption is an ideal functionality: a ciphertext    *)
(*     is a run of opaque bytes naming an entry of the table ct, and       *)
(*     opening succeeds only for the untouched bytes under the key (and    *)
(*     nonce) the entry was sealed with;                                   *)
(*   - the codec is bincode as maidsafe_utilities configures it: fixed     *)
(*     width little-endian u64 lengths, no trailing bytes accepted.        *)
(* Everything else (which key goes where, the order of parsing and         *)
(* opening, the error mapping, where the nonce comes from, what is         *)
(* shared by clones) is translated from lib.rs.                            *)
(***************************************************************************)
EXTENDS Integers, Sequences, FiniteSets, TLC

\* Bounds of the model: how many SecretId values, SharedSecretKey values and
\* kept outputs a behaviour may hold.
MaxIds == 3
MaxKeys == 2
MaxSent == 2

\* box_::NONCEBYTES, the length of PackedNonce.nonce.
NONCEBYTES == 24
\* box_::MACBYTES: seal_precomputed prepends a 16-byte authenticator.
MACBYTES == 16
\* sealedbox::SEALBYTES: seal prepends an ephemeral public key and the authenticator.
SEALBYTES == 48

----------------------------------------------------------------------------
\* Bytes.  A byte is a literal value, or an opaque byte of a nonce or of a
\* ciphertext: k says which, id is the value (lit) or the name of the nonce /
\* the index of the ciphertext in ct, i the position inside it, x the bits
\* that were flipped since it was produced.

Lit(v) == [k |-> "lit", id |-> v, i |-> 0, x |-> 0]

Lits(vs) == [j \in 1..Len(vs) |-> Lit(vs[j])]

IsLit(b) == b.k = "lit"

NonceBytes(n) == [j \in 1..NONCEBYTES |-> [k |-> "nonce", id |-> n, i |-> j, x |-> 0]]

CipherBytes(id, n) == [j \in 1..n |-> [k |-> "ct", id |-> id, i |-> j, x |-> 0]]

Pow2(b) == IF b = 0 THEN 1 ELSE IF b = 1 THEN 2 ELSE IF b = 2 THEN 4 ELSE IF b = 3 THEN 8
           ELSE IF b = 4 THEN 16 ELSE IF b = 5 THEN 32 ELSE IF b = 6 THEN 64 ELSE 128

XorBit(v, b) == IF (v \div Pow2(b)) % 2 = 1 THEN v - Pow2(b) ELSE v + Pow2(b)

FlipBit(byte, b) ==
    IF IsLit(byte) THEN [byte EXCEPT !.id = XorBit(byte.id, b)]
    ELSE [byte EXCEPT !.x = XorBit(byte.x, b)]

----------------------------------------------------------------------------
\* The codec (maidsafe_utilities::serialisation over bincode).
\* A typed value is [ty, val]: ty one of "u8", "bool", "Vec<u8>", val the
\* sequence of its byte values (one element for u8 and bool).  Payloads are
\* literal bytes throughout: no operation is handed a ciphertext to encrypt.

NoVal == [ty |-> "", val |-> <<>>]

U64LE(n) == <<Lit(n % 256), Lit(n \div 256)>> \o [j \in 1..6 |-> Lit(0)]

\* The value of 8 length bytes (literal bytes: the inputs of the model never
\* put an opaque byte where a length is read).  Every sequence of the model is
\* shorter than 65536 bytes, so a length with a higher byte set only needs to
\* be known as longer than that.
U64Value(bs) ==
    IF \A j \in 3..8 : bs[j].id = 0
    THEN bs[1].id + 256 * bs[2].id
    ELSE 65536

CodecOk(v) == [tag |-> "Ok", val |-> v, cause |-> ""]

EncodeOk(bs) == [tag |-> "Ok", bytes |-> bs, cause |-> ""]

CodecErr(c) == [tag |-> "Err", val |-> NoVal, cause |-> c]

\* bincode's encoding of a value; serialise wraps it in Ok (with no size limit
\* set, encoding these types cannot fail).
Encoding(v) ==
    IF v.ty = "Vec<u8>" THEN U64LE(Len(v.val)) \o Lits(v.val)
    ELSE Lits(v.val)

serialise(v) == EncodeOk(Encoding(v))

deserialise(ty, bs) ==
    CASE ty = "u8" ->
           IF Len(bs) < 1 THEN CodecErr("UnexpectedEof")
           ELSE IF Len(bs) > 1 THEN CodecErr("DeserialiseExtraBytes")
           ELSE CodecOk([ty |-> "u8", val |-> <<bs[1].id>>])
      [] ty = "bool" ->
           IF Len(bs) < 1 THEN CodecErr("UnexpectedEof")
           ELSE IF bs[1].id \notin {0, 1} THEN CodecErr("InvalidBoolEncoding")
           ELSE IF Len(bs) > 1 THEN CodecErr("DeserialiseExtraBytes")
           ELSE CodecOk([ty |-> "bool", val |-> <<bs[1].id>>])
      [] OTHER ->
           IF Len(bs) < 8 THEN CodecErr("UnexpectedEof")
           ELSE LET n == U64Value(SubSeq(bs, 1, 8)) IN
                IF Len(bs) < 8 + n THEN CodecErr("UnexpectedEof")
                ELSE IF Len(bs) > 8 + n THEN CodecErr("DeserialiseExtraBytes")
                ELSE CodecOk([ty |-> "Vec<u8>", val |-> [j \in 1..n |-> bs[8 + j].id]])

\* PackedNonce { nonce: [u8; NONCEBYTES], ciphertext: Vec<u8> }
PackedNonce(nonce, ciphertext) == [nonce |-> nonce, ciphertext |-> ciphertext]

NoPacked == [nonce |-> <<>>, ciphertext |-> <<>>]

\* serialise(&PackedNonce): the array without a length, then the Vec<u8>.
EncodingPacked(p) == p.nonce \o U64LE(Len(p.ciphertext)) \o p.ciphertext

serialise_packed(p) == EncodeOk(EncodingPacked(p))

\* deserialise::<PackedNonce>(encoded)
deserialise_packed(bs) ==
    IF Len(bs) < NONCEBYTES + 8 THEN [tag |-> "Err", val |-> NoPacked, cause |-> "UnexpectedEof"]
    ELSE LET n == U64Value(SubSeq(bs, NONCEBYTES + 1, NONCEBYTES + 8)) IN
         IF Len(bs) < NONCEBYTES + 8 + n
         THEN [tag |-> "Err", val |-> NoPacked, cause |-> "UnexpectedEof"]
         ELSE IF Len(bs) > NONCEBYTES + 8 + n
         THEN [tag |-> "Err", val |-> NoPacked, cause |-> "DeserialiseExtraBytes"]
         ELSE [tag |-> "Ok",
               val |-> PackedNonce(SubSeq(bs, 1, NONCEBYTES),
                                   SubSeq(bs, NONCEBYTES + 9, Len(bs))),
               cause |-> ""]

----------------------------------------------------------------------------
\* The primitives (rust_sodium::crypto::{sign, box_, sealedbox}).
\* A key is [t, s]: t its type, s the name drawn when its pair was generated.

sign_gen_keypair(name) == [pk |-> [t |-> "sign_pk", s |-> name], sk |-> [t |-> "sign_sk", s |-> name]]

box_gen_keypair(name) == [pk |-> [t |-> "box_pk", s |-> name], sk |-> [t |-> "box_sk", s |-> name]]

box_gen_nonce(name) == NonceBytes(name)

\* A detached signature names the key that made it and the data it covers.
NoSig == [s |-> 0, data |-> <<>>]

sign_sign_detached(data, sk) == [s |-> sk.s, data |-> data]

sign_verify_detached(sig, data, pk) == sig.s = pk.s /\ sig.data = data

\* box_::precompute: the Diffie-Hellman combination of the two pairs, the
\* same whichever side's secret key is used.
box_precompute(pk, sk) ==
    [lo |-> IF pk.s < sk.s THEN pk.s ELSE sk.s, hi |-> IF pk.s < sk.s THEN sk.s ELSE pk.s]

NoKey == [lo |-> 0, hi |-> 0]

\* The entries of ct, the table of the ideal encryption functionality.
BoxEntry(pt, nonce, key) ==
    [alg |-> "box", pk |-> 0, eph |-> 0, key |-> key, nonce |-> nonce, pt |-> pt]

SealEntry(pt, pk, eph) ==
    [alg |-> "sealedbox", pk |-> pk.s, eph |-> eph, key |-> NoKey, nonce |-> <<>>, pt |-> pt]

\* box_::seal_precomputed is a function of (pt, nonce, key): the same three
\* give the same ciphertext.  Returns the table and the ciphertext.
box_seal_precomputed(tbl, pt, nonce, key) ==
    LET e == BoxEntry(pt, nonce, key) IN
    IF \E j \in 1..Len(tbl) : tbl[j] = e
    THEN [tbl |-> tbl,
          c |-> CipherBytes(CHOOSE j \in 1..Len(tbl) : tbl[j] = e, MACBYTES + Len(pt))]
    ELSE [tbl |-> Append(tbl, e), c |-> CipherBytes(Len(tbl) + 1, MACBYTES + Len(pt))]

\* sealedbox::seal seals under an ephemeral key pair it generates (named eph):
\* every call gives a new ciphertext.
sealedbox_seal(tbl, pt, pk, eph) ==
    [tbl |-> Append(tbl, SealEntry(pt, pk, eph)),
     c |-> CipherBytes(Len(tbl) + 1, SEALBYTES + Len(pt))]

OpenOk(pt) == [ok |-> TRUE, pt |-> pt]

OpenFail == [ok |-> FALSE, pt |-> <<>>]

\* The entry a run of bytes is the untouched ciphertext of, 0 if none.
EntryOf(tbl, c, overhead) ==
    IF Len(c) >= overhead /\ c[1].k = "ct" /\ c[1].id \in 1..Len(tbl)
       /\ c = CipherBytes(c[1].id, overhead + Len(tbl[c[1].id].pt))
    THEN c[1].id ELSE 0

box_open_precomputed(tbl, c, nonce, key) ==
    LET j == EntryOf(tbl, c, MACBYTES) IN
    IF j # 0 /\ tbl[j].alg = "box" /\ tbl[j].key = key /\ tbl[j].nonce = nonce
    THEN OpenOk(tbl[j].pt) ELSE OpenFail

sealedbox_open(tbl, c, pk, sk) ==
    LET j == EntryOf(tbl, c, SEALBYTES) IN
    IF j # 0 /\ tbl[j].alg = "sealedbox" /\ tbl[j].pk = pk.s /\ sk.s = pk.s
    THEN OpenOk(tbl[j].pt) ELSE OpenFail

----------------------------------------------------------------------------
\* Results and errors (lib.rs 165-202).

NoBytes == <<>>

Ok(bytes, val) == [tag |-> "Ok", bytes |-> bytes, val |-> val, err |-> "", cause |-> ""]

Err(err, cause) == [tag |-> "Err", bytes |-> NoBytes, val |-> NoVal, err |-> err, cause |-> cause]

\* EncryptError::Serialisation(e)
EncryptError_Serialisation(cause) == Err("EncryptError::Serialisation", cause)

\* DecryptBytesError::{DecryptVerify, Deserialisation(e)}
DecryptBytesError_DecryptVerify == Err("DecryptBytesError::DecryptVerify", "")

DecryptBytesError_Deserialisation(cause) == Err("DecryptBytesError::Deserialisation", cause)

\* DecryptError::{DecryptVerify, Deserialisation(e)}
DecryptError_DecryptVerify == Err("DecryptError::DecryptVerify", "")

DecryptError_Deserialisation(cause) == Err("DecryptError::Deserialisation", cause)

----------------------------------------------------------------------------
\* The state.

VARIABLES
    rng,       \* how many values of each kind the secure random source has
               \* handed out; the n-th value of a kind is named n
    inners,    \* the Arc<SecretIdInner> allocations, by address
    precomps,  \* the Arc<box_::PrecomputedKey> allocations, by address
    ids,       \* the SecretId values alive: [inner: address, public: PublicId]
    keys,      \* the SharedSecretKey values alive: [precomputed: address]
    derived,   \* history: the (self, peer) each key of keys was derived from
    ct,        \* the table of the ideal encryption functionality
    sent,      \* history: what the encrypt and sign calls returned
    last       \* the call that has returned and its result, until the caller
               \* takes it ("idle" between calls)

vars == <<rng, inners, precomps, ids, keys, derived, ct, sent, last>>

NoMut == [k |-> "none", pos |-> 0, bit |-> 0]

Call(op, h, src, mut, ty, arg, res) ==
    [op |-> op, h |-> h, src |-> src, mut |-> mut, ty |-> ty, arg |-> arg, res |-> res]

Idle == Call("idle", 0, 0, NoMut, "", NoBytes, Ok(NoBytes, NoVal))

Sent(op, h, v, pt, out, sig) ==
    [op |-> op, h |-> h, v |-> v, pt |-> pt, out |-> out, sig |-> sig]

Init ==
    /\ rng = [sign |-> 0, box |-> 0, nonce |-> 0, eph |-> 0]
    /\ inners = <<>>
    /\ precomps = <<>>
    /\ ids = <<>>
    /\ keys = <<>>
    /\ derived = <<>>
    /\ ct = <<>>
    /\ sent = <<>>
    /\ last = Idle

----------------------------------------------------------------------------
\* impl PublicId (lib.rs 58-74).  self is a PublicId.
\* The encrypt operations return the table, the random source and the result.

encrypt_anonymous_bytes(self, plaintext) ==
    LET r == sealedbox_seal(ct, plaintext, self.encrypt, rng.eph + 1) IN
    [tbl |-> r.tbl, rng |-> [rng EXCEPT !.eph = @ + 1], res |-> Ok(r.c, NoVal)]

\* encrypt_anonymous sealing the value's bytes as they are, not its encoding.
encrypt_anonymous_raw(self, plaintext) == encrypt_anonymous_bytes(self, Lits(plaintext.val))

encrypt_anonymous(self, plaintext) ==
    LET bytes == serialise(plaintext) IN
    IF bytes.tag = "Err"
    THEN [tbl |-> ct, rng |-> rng, res |-> EncryptError_Serialisation(bytes.cause)]
    ELSE encrypt_anonymous_bytes(self, bytes.bytes)

\* verify_detached dropping the verdict of the verification.
verify_detached_unchecked(self, signature, data) ==
    sign_verify_detached(signature, data, self.sign) \/ TRUE

verify_detached(self, signature, data) == sign_verify_detached(signature, data, self.sign)

----------------------------------------------------------------------------
\* impl SecretId (lib.rs 77-126).  self is a SecretId.

\* SecretId::new: two key pairs, the secret halves behind a new Arc (at addr).
new(addr) ==
    LET s == sign_gen_keypair(rng.sign + 1)
        e == box_gen_keypair(rng.box + 1)
    IN [id |-> [inner |-> addr, public |-> [sign |-> s.pk, encrypt |-> e.pk]],
        inner |-> [sign |-> s.sk, encrypt |-> e.sk]]

public_id(self) == self.public

\* decrypt_anonymous_bytes reporting a failed open as a parse failure.
decrypt_anonymous_bytes_misreported(self, cyphertext) ==
    LET r == sealedbox_open(ct, cyphertext, self.public.encrypt, inners[self.inner].encrypt) IN
    IF r.ok THEN Ok(r.pt, NoVal) ELSE DecryptBytesError_Deserialisation("Custom")

decrypt_anonymous_bytes(self, cyphertext) ==
    LET r == sealedbox_open(ct, cyphertext, self.public.encrypt, inners[self.inner].encrypt) IN
    IF r.ok THEN Ok(r.pt, NoVal) ELSE DecryptBytesError_DecryptVerify

\* The match with both arms giving DecryptVerify.
map_err_collapsed(e) == DecryptError_DecryptVerify

\* The match of lib.rs 104-107 and 157-160.
map_err(e) ==
    IF e.err = "DecryptBytesError::DecryptVerify" THEN DecryptError_DecryptVerify
    ELSE DecryptError_Deserialisation(e.cause)

decrypt_anonymous(self, ty, cyphertext) ==
    LET bytes == decrypt_anonymous_bytes(self, cyphertext) IN
    IF bytes.tag = "Err" THEN map_err(bytes)
    ELSE LET d == deserialise(ty, bytes.bytes) IN
         IF d.tag = "Err" THEN DecryptError_Deserialisation(d.cause) ELSE Ok(NoBytes, d.val)

sign_detached(self, data) == sign_sign_detached(data, inners[self.inner].sign)

\* shared_key combining the secret key with the caller's own public key.
shared_key_own_public(self, their_pk) ==
    box_precompute(self.public.encrypt, inners[self.inner].encrypt)

shared_key(self, their_pk) == box_precompute(their_pk.encrypt, inners[self.inner].encrypt)

\* A clone that copies the secret keys into an allocation of its own.
clone_secret_id_deep(self) ==
    [id |-> [inner |-> Len(inners) + 1, public |-> self.public],
     inners |-> Append(inners, inners[self.inner])]

\* #[derive(Clone)] on SecretId: Arc::clone gives the same allocation (nothing
\* is allocated), the PublicId is copied.  Returns the clone and the allocations.
clone_secret_id(self) ==
    [id |-> [inner |-> self.inner, public |-> self.public], inners |-> inners]

----------------------------------------------------------------------------
\* impl SharedSecretKey (lib.rs 128-163).  self is a SharedSecretKey.

\* encrypt_bytes with one nonce for every call.
encrypt_bytes_fixed_nonce(self, plaintext) ==
    LET nonce == box_gen_nonce(1)
        r == box_seal_precomputed(ct, plaintext, nonce, precomps[self.precomputed])
        env == serialise_packed(PackedNonce(nonce, r.c))
    IN [tbl |-> r.tbl,
        rng |-> [rng EXCEPT !.nonce = @ + 1],
        res |-> IF env.tag = "Err" THEN EncryptError_Serialisation(env.cause)
                ELSE Ok(env.bytes, NoVal)]

encrypt_bytes(self, plaintext) ==
    LET nonce == box_gen_nonce(rng.nonce + 1)
        r == box_seal_precomputed(ct, plaintext, nonce, precomps[self.precomputed])
        env == serialise_packed(PackedNonce(nonce, r.c))
    IN [tbl |-> r.tbl,
        rng |-> [rng EXCEPT !.nonce = @ + 1],
        res |-> IF env.tag = "Err" THEN EncryptError_Serialisation(env.cause)
                ELSE Ok(env.bytes, NoVal)]

encrypt(self, plaintext) ==
    LET bytes == serialise(plaintext) IN
    IF bytes.tag = "Err"
    THEN [tbl |-> ct, rng |-> rng, res |-> EncryptError_Serialisation(bytes.cause)]
    ELSE encrypt_bytes(self, bytes.bytes)

\* decrypt_bytes opening under a nonce of its own, not the envelope's.
decrypt_bytes_own_nonce(self, encoded) ==
    LET p == deserialise_packed(encoded) IN
    IF p.tag = "Err" THEN DecryptBytesError_Deserialisation(p.cause)
    ELSE LET r == box_open_precomputed(ct, p.val.ciphertext, box_gen_nonce(rng.nonce + 1),
                                       precomps[self.precomputed]) IN
         IF r.ok THEN Ok(r.pt, NoVal) ELSE DecryptBytesError_DecryptVerify

\* decrypt_bytes handing back the ciphertext when it does not open.
decrypt_bytes_unverified(self, encoded) ==
    LET p == deserialise_packed(encoded) IN
    IF p.tag = "Err" THEN DecryptBytesError_Deserialisation(p.cause)
    ELSE LET r == box_open_precomputed(ct, p.val.ciphertext, p.val.nonce,
                                       precomps[self.precomputed]) IN
         IF r.ok THEN Ok(r.pt, NoVal) ELSE Ok(p.val.ciphertext, NoVal)

\* decrypt_bytes reporting an envelope that does not parse as DecryptVerify.
decrypt_bytes_parse_as_verify(self, encoded) ==
    LET p == deserialise_packed(encoded) IN
    IF p.tag = "Err" THEN DecryptBytesError_DecryptVerify
    ELSE LET r == box_open_precomputed(ct, p.val.ciphertext, p.val.nonce,
                                       precomps[self.precomputed]) IN
         IF r.ok THEN Ok(r.pt, NoVal) ELSE DecryptBytesError_DecryptVerify

decrypt_bytes(self, encoded) ==
    LET p == deserialise_packed(encoded) IN
    IF p.tag = "Err" THEN DecryptBytesError_Deserialisation(p.cause)
    ELSE LET r == box_open_precomputed(ct, p.val.ciphertext, p.val.nonce,
                                       precomps[self.precomputed]) IN
         IF r.ok THEN Ok(r.pt, NoVal) ELSE DecryptBytesError_DecryptVerify

decrypt(self, ty, cyphertext) ==
    LET bytes == decrypt_bytes(self, cyphertext) IN
    IF bytes.tag = "Err" THEN map_err(bytes)
    ELSE LET d == deserialise(ty, bytes.bytes) IN
         IF d.tag = "Err" THEN DecryptError_Deserialisation(d.cause) ELSE Ok(NoBytes, d.val)

\* #[derive(Clone)] on SharedSecretKey: Arc::clone, the same allocation.
\* Returns the clone and the allocations.
clone_shared_key(self) == [key |-> [precomputed |-> self.precomputed], precomps |-> precomps]

----------------------------------------------------------------------------
\* What the callers pass in.

TypedValues == {[ty |-> "u8", val |-> <<1>>], [ty |-> "Vec<u8>", val |-> <<1, 2, 3>>]}

Types == {"u8", "bool", "Vec<u8>"}

Payloads == {Lits(<<1, 2, 3>>)}

Datas == {Lits(<<1, 2, 3>>), Lits(<<4>>)}

Mutate(bs, m) ==
    CASE m.k = "flip" -> [bs EXCEPT ![m.pos] = FlipBit(bs[m.pos], m.bit)]
      [] m.k = "truncate" -> SubSeq(bs, 1, m.pos)
      [] m.k = "extend" -> Append(bs, Lit(0))
      [] OTHER -> bs

\* The first and the last byte of every field of bs: of a ciphertext, or of
\* an envelope's nonce, length and ciphertext.
Edges(bs) ==
    {p \in 1..Len(bs) : \/ p = 1 \/ p = Len(bs)
                        \/ bs[p].k # bs[p - 1].k \/ bs[p].k # bs[p + 1].k}

Unchanged(bs) == {NoMut}

\* A bit flipped anywhere.
BitFlips(bs) ==
    {NoMut} \cup {[k |-> "flip", pos |-> p, bit |-> b] : p \in 1..Len(bs), b \in 0..7}

\* A low or a high bit flipped at an edge, the bytes cut before or after an
\* edge, or a byte added.
EdgeMutations(bs) ==
    {NoMut}
    \cup {[k |-> "flip", pos |-> p, bit |-> b] : p \in Edges(bs), b \in {0, 7}}
    \cup {[k |-> "truncate", pos |-> p - 1, bit |-> 0] : p \in Edges(bs)}
    \cup {[k |-> "truncate", pos |-> p, bit |-> 0] : p \in Edges(bs) \ {Len(bs)}}
    \cup {[k |-> "extend", pos |-> Len(bs) + 1, bit |-> 0]}

\* Bytes that no encrypt call produced: nothing, a short payload, and a well
\* formed envelope around an empty ciphertext.
Junk == <<NoBytes, Lits(<<1, 2, 3>>), [j \in 1..NONCEBYTES |-> Lit(0)] \o U64LE(0)>>

AnonOps == {"encrypt_anonymous", "encrypt_anonymous_bytes"}

SharedOps == {"encrypt", "encrypt_bytes"}

\* The changes of a kind.
Mutations(how, bs) ==
    CASE how = "Unchanged" -> Unchanged(bs)
      [] how = "EdgeMutations" -> EdgeMutations(bs)
      [] how = "BitFlips" -> BitFlips(bs)

\* What a decrypt call may be handed: an output of an earlier call of ops
\* (src, its place in sent), as it was or changed on the way as how allows, or
\* junk (src 0).
Inputs(ops, how) ==
    UNION {{[src |-> m, mut |-> x] : x \in Mutations(how, sent[m].out)} :
           m \in {n \in 1..Len(sent) : sent[n].op \in ops}}
    \cup {[src |-> 0, mut |-> [k |-> "junk", pos |-> j, bit |-> 0]] : j \in 1..Len(Junk)}

\* The bytes of an input.
InputBytes(in) == IF in.src = 0 THEN Junk[in.mut.pos] ELSE Mutate(sent[in.src].out, in.mut)

----------------------------------------------------------------------------
\* The calls.  A call returns in the same step, and last holds what it
\* returned until the caller takes it (Return); the specifications below let
\* the caller make its next call then.

Bool(b) == [ty |-> "bool", val |-> IF b THEN <<1>> ELSE <<0>>]

New ==
    /\ LET n == new(Len(inners) + 1) IN
       /\ inners' = Append(inners, n.inner)
       /\ ids' = Append(ids, n.id)
    /\ rng' = [rng EXCEPT !.sign = @ + 1, !.box = @ + 1]
    /\ last' = Call("new", Len(ids) + 1, 0, NoMut, "", NoBytes, Ok(NoBytes, NoVal))
    /\ UNCHANGED <<precomps, keys, derived, ct, sent>>

CloneSecretId(i) ==
    /\ LET c == clone_secret_id(ids[i]) IN
       /\ ids' = Append(ids, c.id)
       /\ inners' = c.inners
    /\ last' = Call("clone_secret_id", Len(ids) + 1, i, NoMut, "", NoBytes, Ok(NoBytes, NoVal))
    /\ UNCHANGED <<rng, precomps, keys, derived, ct, sent>>

EncryptAnonymous(j, v) ==
    /\ LET r == encrypt_anonymous(public_id(ids[j]), v) IN
       /\ ct' = r.tbl
       /\ rng' = r.rng
       /\ sent' = Append(sent, Sent("encrypt_anonymous", j, v, NoBytes, r.res.bytes, NoSig))
       /\ last' = Call("encrypt_anonymous", j, 0, NoMut, v.ty, NoBytes, r.res)
    /\ UNCHANGED <<inners, precomps, ids, keys, derived>>

EncryptAnonymousBytes(j, p) ==
    /\ LET r == encrypt_anonymous_bytes(public_id(ids[j]), p) IN
       /\ ct' = r.tbl
       /\ rng' = r.rng
       /\ sent' = Append(sent, Sent("encrypt_anonymous_bytes", j, NoVal, p, r.res.bytes, NoSig))
       /\ last' = Call("encrypt_anonymous_bytes", j, 0, NoMut, "", p, r.res)
    /\ UNCHANGED <<inners, precomps, ids, keys, derived>>

DecryptAnonymous(i, in, ty) ==
    /\ last' = Call("decrypt_anonymous", i, in.src, in.mut, ty, NoBytes,
                    decrypt_anonymous(ids[i], ty, InputBytes(in)))
    /\ UNCHANGED <<rng, inners, precomps, ids, keys, derived, ct, sent>>

DecryptAnonymousBytes(i, in) ==
    /\ last' = Call("decrypt_anonymous_bytes", i, in.src, in.mut, "", NoBytes,
                    decrypt_anonymous_bytes(ids[i], InputBytes(in)))
    /\ UNCHANGED <<rng, inners, precomps, ids, keys, derived, ct, sent>>

SignDetached(i, d) ==
    /\ sent' = Append(sent, Sent("sign_detached", i, NoVal, d, NoBytes, sign_detached(ids[i], d)))
    /\ last' = Call("sign_detached", i, 0, NoMut, "", d, Ok(NoBytes, NoVal))
    /\ UNCHANGED <<rng, inners, precomps, ids, keys, derived, ct>>

VerifyDetached(i, m, d) ==
    /\ sent[m].op = "sign_detached"
    /\ last' = Call("verify_detached", i, m, NoMut, "", d,
                    Ok(NoBytes, Bool(verify_detached(public_id(ids[i]), sent[m].sig, d))))
    /\ UNCHANGED <<rng, inners, precomps, ids, keys, derived, ct, sent>>

SharedKey(i, j) ==
    /\ precomps' = Append(precomps, shared_key(ids[i], public_id(ids[j])))
    /\ keys' = Append(keys, [precomputed |-> Len(precomps) + 1])
    /\ derived' = Append(derived, [self |-> i, peer |-> j])
    /\ last' = Call("shared_key", i, j, NoMut, "", NoBytes, Ok(NoBytes, NoVal))
    /\ UNCHANGED <<rng, inners, ids, ct, sent>>

CloneSharedKey(k) ==
    /\ LET c == clone_shared_key(keys[k]) IN
       /\ keys' = Append(keys, c.key)
       /\ precomps' = c.precomps
    /\ derived' = Append(derived, derived[k])
    /\ last' = Call("clone_shared_key", Len(keys) + 1, k, NoMut, "", NoBytes, Ok(NoBytes, NoVal))
    /\ UNCHANGED <<rng, inners, ids, ct, sent>>

EncryptBytes(k, p) ==
    /\ LET r == encrypt_bytes(keys[k], p) IN
       /\ ct' = r.tbl
       /\ rng' = r.rng
       /\ sent' = Append(sent, Sent("encrypt_bytes", k, NoVal, p, r.res.bytes, NoSig))
       /\ last' = Call("encrypt_bytes", k, 0, NoMut, "", p, r.res)
    /\ UNCHANGED <<inners, precomps, ids, keys, derived>>

Encrypt(k, v) ==
    /\ LET r == encrypt(keys[k], v) IN
       /\ ct' = r.tbl
       /\ rng' = r.rng
       /\ sent' = Append(sent, Sent("encrypt", k, v, NoBytes, r.res.bytes, NoSig))
       /\ last' = Call("encrypt", k, 0, NoMut, v.ty, NoBytes, r.res)
    /\ UNCHANGED <<inners, precomps, ids, keys, derived>>

DecryptBytes(k, in) ==
    /\ last' = Call("decrypt_bytes", k, in.src, in.mut, "", NoBytes,
                    decrypt_bytes(keys[k], InputBytes(in)))
    /\ UNCHANGED <<rng, inners, precomps, ids, keys, derived, ct, sent>>

Decrypt(k, in, ty) ==
    /\ last' = Call("decrypt", k, in.src, in.mut, ty, NoBytes,
                    decrypt(keys[k], ty, InputBytes(in)))
    /\ UNCHANGED <<rng, inners, precomps, ids, keys, derived, ct, sent>>

\* The caller takes the result.
Return ==
    /\ last # Idle
    /\ last' = Idle
    /\ UNCHANGED <<rng, inners, precomps, ids, keys, derived, ct, sent>>

----------------------------------------------------------------------------
\* The specifications.  Each says which calls the callers make, how many
\* values may be alive and what the decrypt calls may be handed.  The caller
\* makes a call when it has taken the result of the one before.

\* Anonymous encryption: ciphertexts as they were, changed at their edges, junk.
NextAnon ==
    \/ /\ last = Idle
       /\ Len(ids) < MaxIds - 1 /\ New
    \/ /\ last = Idle
       /\ \E i \in 1..Len(ids) : Len(ids) < MaxIds - 1 /\ CloneSecretId(i)
    \/ /\ last = Idle
       /\ \E j \in 1..Len(ids), v \in TypedValues :
                Len(sent) < MaxSent - 1 /\ EncryptAnonymous(j, v)
    \/ /\ last = Idle
       /\ \E j \in 1..Len(ids), p \in Payloads :
                Len(sent) < MaxSent - 1 /\ EncryptAnonymousBytes(j, p)
    \/ /\ last = Idle
       /\ \E i \in 1..Len(ids), in \in Inputs(AnonOps, "EdgeMutations"), ty \in Types :
                DecryptAnonymous(i, in, ty)
    \/ /\ last = Idle
       /\ \E i \in 1..Len(ids), in \in Inputs(AnonOps, "EdgeMutations") :
                DecryptAnonymousBytes(i, in)
    \/ Return

SpecAnon == Init /\ [][NextAnon]_vars

\* Shared-key encryption: envelopes as they were, changed at the edges of
\* their fields, junk.
NextShared ==
    \/ /\ last = Idle
       /\ Len(ids) < MaxIds - 1 /\ New
    \/ /\ last = Idle
       /\ \E i \in 1..Len(ids), j \in 1..Len(ids) : Len(keys) < MaxKeys /\ SharedKey(i, j)
    \/ /\ last = Idle
       /\ \E k \in 1..Len(keys), p \in Payloads :
                Len(sent) < MaxSent - 1 /\ EncryptBytes(k, p)
    \/ /\ last = Idle
       /\ \E k \in 1..Len(keys), v \in TypedValues : Len(sent) < MaxSent - 1 /\ Encrypt(k, v)
    \/ /\ last = Idle
       /\ \E k \in 1..Len(keys), in \in Inputs(SharedOps, "EdgeMutations") : DecryptBytes(k, in)
    \/ /\ last = Idle
       /\ \E k \in 1..Len(keys), in \in Inputs(SharedOps, "EdgeMutations"), ty \in Types :
                Decrypt(k, in, ty)
    \/ Return

SpecShared == Init /\ [][NextShared]_vars

\* Typed round trips through shared keys, over successive envelopes.
NextRound ==
    \/ /\ last = Idle
       /\ Len(ids) < MaxIds - 1 /\ New
    \/ /\ last = Idle
       /\ \E i \in 1..Len(ids), j \in 1..Len(ids) : Len(keys) < MaxKeys /\ SharedKey(i, j)
    \/ /\ last = Idle
       /\ \E k \in 1..Len(keys), v \in TypedValues : Len(sent) < MaxSent /\ Encrypt(k, v)
    \/ /\ last = Idle
       /\ \E k \in 1..Len(keys), in \in Inputs(SharedOps, "Unchanged"), ty \in Types :
                Decrypt(k, in, ty)
    \/ Return

SpecRound == Init /\ [][NextRound]_vars

\* Successive encryptions under shared keys and their clones.
NextNonce ==
    \/ /\ last = Idle
       /\ Len(ids) < MaxIds - 2 /\ New
    \/ /\ last = Idle
       /\ \E i \in 1..Len(ids), j \in 1..Len(ids) : Len(keys) < MaxKeys /\ SharedKey(i, j)
    \/ /\ last = Idle
       /\ \E k \in 1..Len(keys) : Len(keys) < MaxKeys /\ CloneSharedKey(k)
    \/ /\ last = Idle
       /\ \E k \in 1..Len(keys), p \in Payloads : Len(sent) < MaxSent /\ EncryptBytes(k, p)
    \/ /\ last = Idle
       /\ \E k \in 1..Len(keys), v \in TypedValues : Len(sent) < MaxSent /\ Encrypt(k, v)
    \/ Return

SpecNonce == Init /\ [][NextNonce]_vars

\* Three identities, the keys between them, envelopes as they were.
NextWrongKey ==
    \/ /\ last = Idle
       /\ Len(ids) < MaxIds /\ New
    \/ /\ last = Idle
       /\ \E i \in 1..Len(ids), j \in 1..Len(ids) : Len(keys) < MaxKeys /\ SharedKey(i, j)
    \/ /\ last = Idle
       /\ \E k \in 1..Len(keys), p \in Payloads :
                Len(sent) < MaxSent - 1 /\ EncryptBytes(k, p)
    \/ /\ last = Idle
       /\ \E k \in 1..Len(keys), in \in Inputs(SharedOps, "Unchanged") : DecryptBytes(k, in)
    \/ Return

SpecWrongKey == Init /\ [][NextWrongKey]_vars

\* Signatures.
NextSign ==
    \/ /\ last = Idle
       /\ Len(ids) < MaxIds /\ New
    \/ /\ last = Idle
       /\ \E i \in 1..Len(ids) : Len(ids) < MaxIds /\ CloneSecretId(i)
    \/ /\ last = Idle
       /\ \E i \in 1..Len(ids), d \in Datas : Len(sent) < MaxSent - 1 /\ SignDetached(i, d)
    \/ /\ last = Idle
       /\ \E i \in 1..Len(ids), m \in 1..Len(sent), d \in Datas : VerifyDetached(i, m, d)
    \/ Return

SpecSign == Init /\ [][NextSign]_vars

\* Both kinds of encryption, any one bit of the output flipped.
NextTamper ==
    \/ /\ last = Idle
       /\ Len(ids) < MaxIds - 1 /\ New
    \/ /\ last = Idle
       /\ \E i \in 1..Len(ids), j \in 1..Len(ids) :
                Len(keys) < MaxKeys - 1 /\ SharedKey(i, j)
    \/ /\ last = Idle
       /\ \E j \in 1..Len(ids), v \in TypedValues :
                Len(sent) < MaxSent - 1 /\ EncryptAnonymous(j, v)
    \/ /\ last = Idle
       /\ \E j \in 1..Len(ids), p \in Payloads :
                Len(sent) < MaxSent - 1 /\ EncryptAnonymousBytes(j, p)
    \/ /\ last = Idle
       /\ \E k \in 1..Len(keys), p \in Payloads :
                Len(sent) < MaxSent - 1 /\ EncryptBytes(k, p)
    \/ /\ last = Idle
       /\ \E k \in 1..Len(keys), v \in TypedValues : Len(sent) < MaxSent - 1 /\ Encrypt(k, v)
    \/ /\ last = Idle
       /\ \E i \in 1..Len(ids), in \in Inputs(AnonOps, "BitFlips"), ty \in Types :
                DecryptAnonymous(i, in, ty)
    \/ /\ last = Idle
       /\ \E i \in 1..Len(ids), in \in Inputs(AnonOps, "BitFlips") :
                DecryptAnonymousBytes(i, in)
    \/ /\ last = Idle
       /\ \E k \in 1..Len(keys), in \in Inputs(SharedOps, "BitFlips") : DecryptBytes(k, in)
    \/ /\ last = Idle
       /\ \E k \in 1..Len(keys), in \in Inputs(SharedOps, "BitFlips"), ty \in Types :
                Decrypt(k, in, ty)
    \/ Return

SpecTamper == Init /\ [][NextTamper]_vars

\* Every call, on what the encrypt calls returned and on junk.
Next ==
    \/ /\ last = Idle
       /\ Len(ids) < MaxIds - 1 /\ New
    \/ /\ last = Idle
       /\ \E i \in 1..Len(ids) : Len(ids) < MaxIds - 1 /\ CloneSecretId(i)
    \/ /\ last = Idle
       /\ \E j \in 1..Len(ids), v \in TypedValues :
                Len(sent) < MaxSent - 1 /\ EncryptAnonymous(j, v)
    \/ /\ last = Idle
       /\ \E j \in 1..Len(ids), p \in Payloads :
                Len(sent) < MaxSent - 1 /\ EncryptAnonymousBytes(j, p)
    \/ /\ last = Idle
       /\ \E i \in 1..Len(ids), in \in Inputs(AnonOps \cup SharedOps, "Unchanged"),
                ty \in Types :
                DecryptAnonymous(i, in, ty)
    \/ /\ last = Idle
       /\ \E i \in 1..Len(ids), in \in Inputs(AnonOps \cup SharedOps, "Unchanged") :
                DecryptAnonymousBytes(i, in)
    \/ /\ last = Idle
       /\ \E i \in 1..Len(ids), d \in Datas : Len(sent) < MaxSent - 1 /\ SignDetached(i, d)
    \/ /\ last = Idle
       /\ \E i \in 1..Len(ids), m \in 1..Len(sent), d \in Datas : VerifyDetached(i, m, d)
    \/ /\ last = Idle
       /\ \E i \in 1..Len(ids), j \in 1..Len(ids) : Len(keys) < MaxKeys /\ SharedKey(i, j)
    \/ /\ last = Idle
       /\ \E k \in 1..Len(keys) : Len(keys) < MaxKeys /\ CloneSharedKey(k)
    \/ /\ last = Idle
       /\ \E k \in 1..Len(keys), p \in Payloads :
                Len(sent) < MaxSent - 1 /\ EncryptBytes(k, p)
    \/ /\ last = Idle
       /\ \E k \in 1..Len(keys), v \in TypedValues : Len(sent) < MaxSent - 1 /\ Encrypt(k, v)
    \/ /\ last = Idle
       /\ \E k \in 1..Len(keys), in \in Inputs(SharedOps, "Unchanged") : DecryptBytes(k, in)
    \/ /\ last = Idle
       /\ \E k \in 1..Len(keys), in \in Inputs(SharedOps, "Unchanged"), ty \in Types :
                Decrypt(k, in, ty)
    \/ Return

Spec == Init /\ [][Next]_vars

----------------------------------------------------------------------------
\* Vocabulary of the properties.

\* #[derive(PartialEq)] on SecretId: the secret keys behind the Arc and the
\* PublicId are compared by value, so a clone equals its original.
SecretIdEq(x, y) == inners[x.inner] = inners[y.inner] /\ x.public = y.public

\* The precomputed key a SharedSecretKey of keys holds.
KeyOf(k) == precomps[keys[k].precomputed]

\* bs is the encoding of some PackedNonce: NONCEBYTES bytes of nonce, and a
\* ciphertext behind its length.
ValidEnvelope(bs) ==
    /\ Len(bs) >= NONCEBYTES + 8
    /\ bs = EncodingPacked(PackedNonce(SubSeq(bs, 1, NONCEBYTES),
                                       SubSeq(bs, NONCEBYTES + 9, Len(bs))))

\* The two fields of the envelope sent[m].out.
NonceOf(m) == SubSeq(sent[m].out, 1, NONCEBYTES)

CiphertextOf(m) == SubSeq(sent[m].out, NONCEBYTES + 9, Len(sent[m].out))

\* The bytes that sent[m] encrypted.
PlainOf(m) == IF sent[m].v = NoVal THEN sent[m].pt ELSE Encoding(sent[m].v)

DecryptOps == {"decrypt_anonymous", "decrypt_anonymous_bytes", "decrypt_bytes", "decrypt"}

\* The last call decrypted an output of an encrypt call, unchanged.
Intact == last.op \in DecryptOps /\ last.src # 0 /\ last.mut = NoMut

\* The DecryptVerify of the error type the call op returns.
DecryptVerifyOf(op) ==
    IF op \in {"decrypt_anonymous_bytes", "decrypt_bytes"}
    THEN DecryptBytesError_DecryptVerify ELSE DecryptError_DecryptVerify

\* The key d was derived by one identity from the other identity of e, and
\* the other way round.
Reversed(d, e) ==
    /\ SecretIdEq(ids[d.self], ids[e.peer])
    /\ SecretIdEq(ids[d.peer], ids[e.self])

\* The keys d and e were derived between the same two identities.
SamePair(d, e) ==
    {ids[d.self].public, ids[d.peer].public} = {ids[e.self].public, ids[e.peer].public}

----------------------------------------------------------------------------
\* The properties.

\* C1: an envelope made by b.shared_key(a.public_id()).encrypt(v) is decrypted
\* by a.shared_key(b.public_id()).decrypt to exactly v, whatever nonce the
\* encrypt call drew.
C1_SharedRoundTrip ==
    (/\ Intact
     /\ last.op = "decrypt"
     /\ sent[last.src].op = "encrypt"
     /\ last.ty = sent[last.src].v.ty
     /\ Reversed(derived[last.h], derived[sent[last.src].h]))
    => last.res = Ok(NoBytes, sent[last.src].v)

\* Two identities, each deriving its own key; the second envelope of the key,
\* under the second nonce, came back as the Vec<u8> it carried.
C1_Witness ==
    /\ Intact
    /\ last.src = 2
    /\ sent[1].h = sent[2].h
    /\ last.op = "decrypt"
    /\ sent[last.src].op = "encrypt"
    /\ last.h # sent[last.src].h
    /\ derived[last.h].self # derived[last.h].peer
    /\ ~SecretIdEq(ids[derived[last.h].self], ids[derived[last.h].peer])
    /\ Reversed(derived[last.h], derived[sent[last.src].h])
    /\ last.res = Ok(NoBytes, [ty |-> "Vec<u8>", val |-> <<1, 2, 3>>])

\* C2: id.decrypt_anonymous(id.public_id().encrypt_anonymous(v)) is exactly v.
C2_AnonRoundTrip ==
    (/\ Intact
     /\ last.op = "decrypt_anonymous"
     /\ sent[last.src].op = "encrypt_anonymous"
     /\ last.ty = sent[last.src].v.ty
     /\ SecretIdEq(ids[last.h], ids[sent[last.src].h]))
    => last.res = Ok(NoBytes, sent[last.src].v)

C2_Witness ==
    /\ Intact
    /\ last.op = "decrypt_anonymous"
    /\ sent[last.src].op = "encrypt_anonymous"
    /\ SecretIdEq(ids[last.h], ids[sent[last.src].h])
    /\ Len(ids) > 1
    /\ last.res = Ok(NoBytes, [ty |-> "Vec<u8>", val |-> <<1, 2, 3>>])

\* C3: the envelopes that encrypt_bytes and encrypt made under one shared key
\* (whichever SharedSecretKey value or clone held it) carry pairwise distinct
\* nonces and pairwise distinct ciphertexts.
C3_NonceUnique ==
    \A m \in 1..Len(sent), n \in 1..Len(sent) :
        (/\ m < n
         /\ sent[m].op \in SharedOps
         /\ sent[n].op \in SharedOps
         /\ KeyOf(sent[m].h) = KeyOf(sent[n].h))
        => /\ NonceOf(m) # NonceOf(n)
           /\ CiphertextOf(m) # CiphertextOf(n)

\* The same SharedSecretKey has encrypted the same plaintext MaxSent times.
C3_Witness ==
    /\ Len(sent) = MaxSent
    /\ \A m \in 1..Len(sent) :
          /\ sent[m].op = "encrypt_bytes"
          /\ sent[m].h = sent[1].h
          /\ sent[m].pt = sent[1].pt

\* C4: what was anonymously encrypted to B's PublicId fails with DecryptVerify
\* under any other SecretId, and B's decrypt_anonymous_bytes returns the
\* payload.
C4_WrongRecipient ==
    (/\ Intact
     /\ last.op \in {"decrypt_anonymous", "decrypt_anonymous_bytes"}
     /\ sent[last.src].op \in AnonOps)
    => IF SecretIdEq(ids[last.h], ids[sent[last.src].h])
       THEN last.op = "decrypt_anonymous_bytes" => last.res = Ok(PlainOf(last.src), NoVal)
       ELSE last.res = DecryptVerifyOf(last.op)

\* Another identity tried the ciphertext of [1, 2, 3] and got DecryptVerify.
C4_Witness ==
    /\ Intact
    /\ last.op = "decrypt_anonymous_bytes"
    /\ sent[last.src].op = "encrypt_anonymous_bytes"
    /\ sent[last.src].pt = Lits(<<1, 2, 3>>)
    /\ ~SecretIdEq(ids[last.h], ids[sent[last.src].h])
    /\ last.res = DecryptBytesError_DecryptVerify

\* The last call decrypted an output with one bit of its ciphertext flipped
\* (for an envelope: of its ciphertext field), with the key that decrypts the
\* output itself.
TamperedRightKey ==
    /\ last.op \in DecryptOps
    /\ last.src # 0
    /\ last.mut.k = "flip"
    /\ IF sent[last.src].op \in AnonOps
       THEN /\ last.op \in {"decrypt_anonymous", "decrypt_anonymous_bytes"}
            /\ SecretIdEq(ids[last.h], ids[sent[last.src].h])
       ELSE /\ last.op \in {"decrypt_bytes", "decrypt"}
            /\ last.mut.pos > NONCEBYTES + 8
            /\ KeyOf(last.h) = KeyOf(sent[last.src].h)

\* C5: with any bit of the ciphertext changed, decryption with the otherwise
\* correct key fails with DecryptVerify.
C5_TamperDetected == TamperedRightKey => last.res = DecryptVerifyOf(last.op)

\* The last bit of an envelope was flipped.
C5_Witness ==
    /\ TamperedRightKey
    /\ last.op = "decrypt"
    /\ last.mut.pos = Len(sent[last.src].out)
    /\ last.mut.bit = 0
    /\ last.res = DecryptError_DecryptVerify

\* C6: decrypt_bytes on bytes that are no encoded envelope fails with
\* Deserialisation, and does so under every key.
C6_Malformed ==
    (last.op = "decrypt_bytes" /\ ~ValidEnvelope(InputBytes(last)))
    => /\ last.res.tag = "Err"
       /\ last.res.err = "DecryptBytesError::Deserialisation"
       /\ \A k \in 1..Len(keys) : decrypt_bytes(keys[k], InputBytes(last)) = last.res

\* An envelope cut short inside its ciphertext, with two different keys alive.
C6_Witness ==
    /\ last.op = "decrypt_bytes"
    /\ last.mut.k = "truncate"
    /\ last.mut.pos > NONCEBYTES + 8
    /\ ~ValidEnvelope(InputBytes(last))
    /\ Len(keys) = 2
    /\ KeyOf(1) # KeyOf(2)
    /\ last.res.err = "DecryptBytesError::Deserialisation"

\* C7: an envelope of a.shared_key(b.public_id()).encrypt_bytes(p) is a valid
\* envelope; a key derived between a and b, in either direction, decrypts it
\* to p, and every other key fails with DecryptVerify.
C7_WrongKey ==
    (/\ Intact
     /\ last.op = "decrypt_bytes"
     /\ sent[last.src].op = "encrypt_bytes")
    => /\ ValidEnvelope(sent[last.src].out)
       /\ IF SamePair(derived[last.h], derived[sent[last.src].h])
          THEN last.res = Ok(sent[last.src].pt, NoVal)
          ELSE last.res = DecryptBytesError_DecryptVerify

\* Three different identities: a's key with b encrypted, a key of c failed.
C7_Witness ==
    /\ Intact
    /\ last.op = "decrypt_bytes"
    /\ sent[last.src].op = "encrypt_bytes"
    /\ Len(ids) = 3
    /\ \A i \in 1..3, j \in 1..3 : i # j => ~SecretIdEq(ids[i], ids[j])
    /\ derived[sent[last.src].h] = [self |-> 1, peer |-> 2]
    /\ derived[last.h].self = 3
    /\ last.res = DecryptBytesError_DecryptVerify

\* C8: id1.public_id().verify_detached(id2.sign_detached(d), d) is true when
\* id1 and id2 are the same identity and false when they are not.
C8_Signature ==
    (/\ last.op = "verify_detached"
     /\ last.arg = sent[last.src].pt)
    => last.res = Ok(NoBytes, Bool(SecretIdEq(ids[last.h], ids[sent[last.src].h])))

\* A signature over d was refused for d by another identity's PublicId.
C8_Witness ==
    /\ last.op = "verify_detached"
    /\ last.arg = sent[last.src].pt
    /\ ~SecretIdEq(ids[last.h], ids[sent[last.src].h])
    /\ last.res = Ok(NoBytes, Bool(FALSE))

\* The last call was decrypt, on an envelope as encrypt or encrypt_bytes made
\* it, under the key that made it.
IntactRightKey ==
    /\ Intact
    /\ last.op = "decrypt"
    /\ KeyOf(last.h) = KeyOf(sent[last.src].h)

\* C9 as stated: decrypt reports a recovered payload that does not decode as
\* T differently from an envelope that does not parse.
C9_AsStated ==
    (IntactRightKey /\ last.res.tag = "Err")
    => \A j \in 1..Len(Junk) :
          ~ValidEnvelope(Junk[j]) => decrypt(keys[last.h], last.ty, Junk[j]) # last.res

\* C9, amended: decrypt returns DecryptError::Deserialisation(cause) for an
\* envelope that does not parse, DecryptError::DecryptVerify for one that
\* parses and does not open, and for one that opens the payload decoded as T,
\* or again DecryptError::Deserialisation(cause) when it does not decode: the
\* two kinds of DecryptBytesError, and no third.
C9_ErrorMapping ==
    last.op = "decrypt" =>
        IF ~ValidEnvelope(InputBytes(last))
        THEN last.res.tag = "Err" /\ last.res.err = "DecryptError::Deserialisation"
                                  /\ last.res.cause # ""
        ELSE IF ~IntactRightKey
        THEN last.res = DecryptError_DecryptVerify
        ELSE LET d == deserialise(last.ty, PlainOf(last.src)) IN
             IF d.tag = "Ok" THEN last.res = Ok(NoBytes, d.val)
             ELSE last.res = DecryptError_Deserialisation(d.cause)

\* A payload was recovered and did not decode as T.
C9_Witness ==
    /\ IntactRightKey
    /\ last.res.tag = "Err"
    /\ last.res.err = "DecryptError::Deserialisation"

\* C10: no call changes a SecretId, a SharedSecretKey or the key material
\* behind them; a clone holds the allocation of its original, and cloning
\* allocates nothing.
C10_KeyMaterialFrame ==
    [][/\ \A i \in 1..Len(ids) : i <= Len(ids') /\ ids'[i] = ids[i]
       /\ \A a \in 1..Len(inners) : a <= Len(inners') /\ inners'[a] = inners[a]
       /\ \A k \in 1..Len(keys) : k <= Len(keys') /\ keys'[k] = keys[k]
       /\ \A a \in 1..Len(precomps) : a <= Len(precomps') /\ precomps'[a] = precomps[a]
       /\ last'.op = "clone_secret_id" =>
             /\ ids'[last'.h].inner = ids[last'.src].inner
             /\ ids'[last'.h].public = ids[last'.src].public
             /\ inners' = inners
       /\ last'.op = "clone_shared_key" =>
             /\ keys'[last'.h].precomputed = keys[last'.src].precomputed
             /\ precomps' = precomps]_vars

\* A SecretId and a SharedSecretKey have been cloned and used.
C10_Witness ==
    /\ last.op = "decrypt"
    /\ last.res.tag = "Ok"
    /\ \E i \in 1..Len(ids), j \in 1..Len(ids) : i # j /\ ids[i] = ids[j]
    /\ \E k \in 1..Len(keys), l \in 1..Len(keys) : k # l /\ keys[k] = keys[l]

=============================================================================
